---- MODULE Spec2Model ----
(***************************************************************************)
(* Kanso: a single-document editor that saves the buffer one second after  *)
(* each keystroke.  The module models                                      *)
(*   - the application of src/main.rs: the enum Kanso, its update          *)
(*     function, and the asynchronous tasks it starts (load, wait_a_bit,   *)
(*     save) together with the one file they read and write;               *)
(*   - the struct Writing of src/writing.rs, which main.rs does not use,   *)
(*     driven directly through its own methods (SpecW).                    *)
(*   - the display of the buffer by Kanso::view (SpecV).                   *)
(* Characters are Unicode scalar values (integers); a String is a sequence *)
(* of them and String::len is its length in UTF-8 bytes; a file holds      *)
(* bytes, written from a String and read back by decoding UTF-8.           *)
(***************************************************************************)
EXTENDS Integers, Sequences, FiniteSets, TLC

\* ---------------------------------------------------------------- bounds
\* Write/Amend messages handled in Editing during one run.
MaxOps == 2
\* Length (in characters) of the file found on disk at start.
MaxFileLen == 1
\* Writing::write/amend calls on one Writing (SpecW).
MaxCalls == 3
\* Characters after the first in the long buffers that are displayed (SpecV).
LongLen == 998

\* The number of trailing bytes of the buffer that Kanso::view displays.
TailLen == 1000

\* The characters typed: 'a' (one byte in UTF-8) and U+00E9 (two bytes).
Chars == {97, 233}
\* Text typed into the filename prompt.
Filenames == {"", "n"}
\* The path given on the command line.
ArgPath == "arg"
\* io::ErrorKind values the file system reports.
IoKinds == {"NotFound", "PermissionDenied"}
\* ------------------------------------------------------------- strings
\* char::len_utf8
Utf8Len(c) ==
    IF c < 128 THEN 1 ELSE IF c < 2048 THEN 2 ELSE IF c < 65536 THEN 3 ELSE 4

\* String::len: the length in bytes, the sum of len_utf8 over the characters
\* (counted per byte position, so that long strings need no deep recursion).
StrLen(s) ==
    LET atLeast(k) == Cardinality({i \in DOMAIN s : Utf8Len(s[i]) >= k})
    IN  atLeast(1) + atLeast(2) + atLeast(3) + atLeast(4)

\* encode_utf8 keeping one byte of every character.
EncodeOneByte(c) == <<c % 256>>

\* char::encode_utf8: the bytes of one character.
EncodeUtf8(c) ==
    IF c < 128 THEN <<c>>
    ELSE IF c < 2048 THEN <<192 + (c \div 64), 128 + (c % 64)>>
    ELSE IF c < 65536
         THEN <<224 + (c \div 4096), 128 + ((c \div 64) % 64), 128 + (c % 64)>>
         ELSE <<240 + (c \div 262144), 128 + ((c \div 4096) % 64),
                128 + ((c \div 64) % 64), 128 + (c % 64)>>

\* String::as_bytes: the UTF-8 encoding of a string (by halves).
RECURSIVE AsBytes(_)
AsBytes(s) ==
    IF s = <<>> THEN <<>>
    ELSE IF Len(s) = 1 THEN EncodeUtf8(s[1])
    ELSE LET h == Len(s) \div 2
         IN  AsBytes(SubSeq(s, 1, h)) \o AsBytes(SubSeq(s, h + 1, Len(s)))

\* A continuation byte of UTF-8.
IsContinuation(b) == b >= 128 /\ b < 192

\* The character that starts at the head of the bytes b, with the number of
\* bytes it takes; n = 0 when the bytes do not start with the encoding of a
\* Unicode scalar value.
DecodeFirst(b) ==
    LET b1 == b[1]
        n  == IF b1 < 128 THEN 1 ELSE IF b1 < 192 THEN 0 ELSE IF b1 < 224 THEN 2
              ELSE IF b1 < 240 THEN 3 ELSE IF b1 < 248 THEN 4 ELSE 0
        low(i) == b[i] - 128
        c  == IF n = 1 THEN b1
              ELSE IF n = 2 THEN (b1 - 192) * 64 + low(2)
              ELSE IF n = 3 THEN (b1 - 224) * 4096 + low(2) * 64 + low(3)
              ELSE (b1 - 240) * 262144 + low(2) * 4096 + low(3) * 64 + low(4)
        ok == /\ n > 0
              /\ Len(b) >= n
              /\ \A i \in 2..n : IsContinuation(b[i])
              /\ Utf8Len(c) = n
              /\ c <= 1114111
              /\ ~(c >= 55296 /\ c <= 57343)
    IN  IF ok THEN [n |-> n, c |-> c] ELSE [n |-> 0, c |-> 0]

\* String::from_utf8: the string the bytes encode, or a failure.
RECURSIVE FromUtf8(_)
FromUtf8(b) ==
    IF b = <<>> THEN [ok |-> TRUE, text |-> <<>>]
    ELSE LET first == DecodeFirst(b)
         IN  IF first.n = 0 THEN [ok |-> FALSE, text |-> <<>>]
             ELSE LET rest == FromUtf8(SubSeq(b, first.n + 1, Len(b)))
                  IN  [ok |-> rest.ok,
                       text |-> IF rest.ok THEN <<first.c>> \o rest.text
                                ELSE <<>>]

\* String::push
Push(s, c) == Append(s, c)

\* String::pop: removes the last character, if any.
Pop(s) == IF s = <<>> THEN s ELSE SubSeq(s, 1, Len(s) - 1)

\* All strings of at most n characters.
RECURSIVE StringsUpTo(_)
StringsUpTo(n) ==
    IF n = 0 THEN {<<>>}
    ELSE LET shorter == StringsUpTo(n - 1)
         IN  shorter \cup {Append(s, c) : s \in shorter, c \in Chars}

\* The file at the session's path: absent, or present with its bytes.
NoFile == [exists |-> FALSE, content |-> <<>>]
\* The file as tokio::fs::write leaves it when given the string text.
FileOf(text) == [exists |-> TRUE, content |-> AsBytes(text)]
\* A file whose bytes are not UTF-8.
BinaryFile == [exists |-> TRUE, content |-> <<255>>]

\* ------------------------------------------------------------- state
VARIABLES
    kanso,      \* the value of the enum Kanso (self)
    loadTask,   \* the load future started by Kanso::new
    timers,     \* wait_a_bit futures not yet delivered as Message::Save
    writes,     \* save futures, running or finished and not yet delivered
    file,       \* the file at the session's path: NoFile or FileOf(content)
    ops,        \* history: Write/Amend messages handled in Editing
    log,        \* history: the saves initiated, in order
    last,       \* history: the step taken last (a message handled, a file stored)
    writing,    \* a Writing (src/writing.rs), or the outcome of loading one
    futures,    \* the futures Writing::save returned, not yet completed
    calls,      \* history: write/amend calls on the Writing since its load
    spent,      \* history: write/amend calls on the Writings loaded before
    atLoad,     \* history: the content the Writing had when it was loaded
    stored,     \* history: the string of the write that last reached the file
    shown       \* what Kanso::view displayed last

ctl == <<kanso, loadTask, timers, writes, ops, log, last, shown>>
lib == <<writing, futures, calls, spent, atLoad, stored>>
vars == <<kanso, loadTask, timers, writes, file, ops, log, last,
          writing, futures, calls, spent, atLoad, stored, shown>>

Loading == [tag |-> "Loading"]
Creating(name) == [tag |-> "Creating", filename |-> name]
Editing(path, text, dirty) ==
    [tag |-> "Editing", filepath |-> path, content |-> text, is_dirty |-> dirty]
Errored(e) == [tag |-> "Errored", error |-> e]

\* Error::IOFailed(kind)
IOFailed(kind) == [IOFailed |-> kind]

\* No Writing has been loaded.
NoWriting == [tag |-> "none"]

\* No write has reached the file.
NothingStored == [some |-> FALSE, content |-> <<>>]
Stored(text) == [some |-> TRUE, content |-> text]

\* Values of shown: nothing yet, a text, or the panic of an out-of-boundary
\* slice, which ends the program.
NotShown == [panic |-> FALSE, text |-> <<>>]
Shown(text) == [panic |-> FALSE, text |-> text]
Panicked == [panic |-> TRUE, text |-> <<>>]

NoTask == [st |-> "none"]
Running == [st |-> "running"]

\* A value of last: the step, for Saved(Ok) the number of edits handled when
\* its save was initiated, for an error message the io::ErrorKind it carries.
Event(name, at, err) == [ev |-> name, at |-> at, err |-> err]

\* Kanso::new: with a path argument the application starts Loading with a
\* load in flight, without one it starts Creating with an empty filename.
\* The file at the path is absent or holds any text; the file the prompt will
\* name is absent or holds some text, which the program never reads.
Init ==
    /\ \/ /\ kanso = Loading
          /\ loadTask = Running
          /\ file \in {NoFile, BinaryFile}
                      \cup {FileOf(s) : s \in StringsUpTo(MaxFileLen)}
       \/ /\ kanso = Creating("")
          /\ loadTask = NoTask
          /\ file \in {NoFile, FileOf(<<97>>)}
    /\ timers = {}
    /\ writes = {}
    /\ ops = 0
    /\ log = <<>>
    /\ last = Event("new", 0, "")
    /\ shown = NotShown
    /\ writing = NoWriting
    /\ futures = {}
    /\ calls = 0
    /\ spent = 0
    /\ atLoad = <<>>
    /\ stored = NothingStored

\* ------------------------------------------------------- async tasks
\* load(filepath): the results read_to_string can give: the string the bytes
\* of the file encode, InvalidData when they are not UTF-8, NotFound when
\* there is no file, or another failure (PermissionDenied).
load(filepath) ==
    (IF file.exists
     THEN LET decoded == FromUtf8(file.content)
          IN  IF decoded.ok
              THEN {[ok |-> TRUE, path |-> filepath, content |-> decoded.text]}
              ELSE {[ok |-> FALSE, error |-> IOFailed("InvalidData")]}
     ELSE {[ok |-> FALSE, error |-> IOFailed("NotFound")]})
    \cup {[ok |-> FALSE, error |-> IOFailed("PermissionDenied")]}

\* save(filepath, content), when it succeeds: tokio::fs::write stores the
\* captured content; Message::Saved(Ok) is delivered later.  No file can be
\* opened at the empty path, so a write to it only fails.
save(w) ==
    /\ w \in writes
    /\ ~w.done
    /\ log[w.id].filepath # ""
    /\ writes' = (writes \ {w}) \cup {[w EXCEPT !.done = TRUE]}
    /\ file' = FileOf(log[w.id].content)
    /\ last' = Event("save", 0, "")
    /\ UNCHANGED <<kanso, loadTask, timers, ops, log, lib, shown>>

\* --------------------------------------------------- Kanso::update
\* Message::Loaded(Ok((filepath, content))), delivered by the load task.
LoadedOk ==
    /\ loadTask = Running
    /\ \E r \in load(ArgPath) :
          /\ r.ok
          /\ kanso' = Editing(r.path, r.content, FALSE)
    /\ loadTask' = NoTask
    /\ last' = Event("LoadedOk", 0, "")
    /\ UNCHANGED <<timers, writes, file, ops, log, lib, shown>>

\* Message::Loaded(Err(error)), delivered by the load task.
LoadedErr ==
    /\ loadTask = Running
    /\ \E r \in load(ArgPath) :
          /\ ~r.ok
          /\ kanso' = Errored(r.error)
          /\ last' = Event("LoadedErr", 0, r.error.IOFailed)
    /\ loadTask' = NoTask
    /\ UNCHANGED <<timers, writes, file, ops, log, lib, shown>>

\* FilenameChanged without the test for Creating.
FilenameChangedUnchecked(new_filename) ==
    /\ kanso' = Creating(new_filename)
    /\ last' = Event("FilenameChanged", 0, "")
    /\ UNCHANGED <<loadTask, timers, writes, file, ops, log, lib, shown>>

\* Message::FilenameChanged(new_filename)
FilenameChanged(new_filename) ==
    /\ kanso' = IF kanso.tag = "Creating" THEN Creating(new_filename) ELSE kanso
    /\ last' = Event("FilenameChanged", 0, "")
    /\ UNCHANGED <<loadTask, timers, writes, file, ops, log, lib, shown>>

\* FilenameChosen scheduling Save(1) instead of Save(0).
FilenameChosenSchedulesSaveOne ==
    /\ IF kanso.tag = "Creating"
       THEN /\ kanso' = Editing(kanso.filename, <<>>, TRUE)
            /\ timers' = timers \cup {[version |-> 1, op |-> 0]}
       ELSE UNCHANGED <<kanso, timers>>
    /\ last' = Event("FilenameChosen", 0, "")
    /\ UNCHANGED <<loadTask, writes, file, ops, log, lib, shown>>

\* Message::FilenameChosen
FilenameChosen ==
    /\ IF kanso.tag = "Creating"
       THEN /\ kanso' = Editing(kanso.filename, <<>>, TRUE)
            /\ timers' = timers \cup {[version |-> 0, op |-> 0]}
       ELSE UNCHANGED <<kanso, timers>>
    /\ last' = Event("FilenameChosen", 0, "")
    /\ UNCHANGED <<loadTask, writes, file, ops, log, lib, shown>>

\* The body shared by Message::Write and Message::Amend once the content is
\* changed: set is_dirty and schedule Save(content.len()).
Edited(text) ==
    /\ kanso' = [kanso EXCEPT !.content = text, !.is_dirty = TRUE]
    /\ ops' = ops + 1
    /\ timers' = timers \cup {[version |-> StrLen(text), op |-> ops + 1]}

\* Message::Write(character); no message is handled after a panic.
Write(character) ==
    /\ ~shown.panic
    /\ IF kanso.tag = "Editing"
       THEN ops < MaxOps /\ Edited(Push(kanso.content, character))
       ELSE UNCHANGED <<kanso, ops, timers>>
    /\ last' = Event("Write", 0, "")
    /\ UNCHANGED <<loadTask, writes, file, log, lib, shown>>

\* Amend with the timer scheduled outside the test for Editing.
AmendSchedulesAnyway ==
    /\ IF kanso.tag = "Editing"
       THEN ops < MaxOps /\ Edited(Pop(kanso.content))
       ELSE /\ timers' = timers \cup {[version |-> 0, op |-> ops]}
            /\ UNCHANGED <<kanso, ops>>
    /\ last' = Event("Amend", 0, "")
    /\ UNCHANGED <<loadTask, writes, file, log, lib, shown>>

\* Message::Amend
Amend ==
    /\ ~shown.panic
    /\ IF kanso.tag = "Editing"
       THEN ops < MaxOps /\ Edited(Pop(kanso.content))
       ELSE UNCHANGED <<kanso, ops, timers>>
    /\ last' = Event("Amend", 0, "")
    /\ UNCHANGED <<loadTask, writes, file, log, lib, shown>>

\* The guard of the Message::Save(version) arm.
SaveGuard(version) ==
    /\ kanso.tag = "Editing"
    /\ kanso.is_dirty
    /\ StrLen(kanso.content) = version

\* Message::Save(version), delivered by the timer t.
Save(t) ==
    /\ t \in timers
    /\ timers' = timers \ {t}
    /\ IF SaveGuard(t.version)
       THEN /\ log' = Append(log, [filepath |-> kanso.filepath,
                                   content |-> kanso.content,
                                   at |-> ops, by |-> t.op])
            /\ writes' = writes \cup {[id |-> Len(log) + 1, done |-> FALSE]}
       ELSE UNCHANGED <<log, writes>>
    /\ last' = Event("Save", 0, "")
    /\ UNCHANGED <<kanso, loadTask, file, ops, lib, shown>>

\* Saved(Ok) clearing an error left by another write.
SavedOkClearsError(w) ==
    /\ w \in writes
    /\ w.done
    /\ writes' = writes \ {w}
    /\ kanso' = IF kanso.tag = "Editing"
                THEN [kanso EXCEPT !.is_dirty = FALSE]
                ELSE Editing(log[w.id].filepath, log[w.id].content, FALSE)
    /\ last' = Event("SavedOk", log[w.id].at, "")
    /\ UNCHANGED <<loadTask, timers, file, ops, log, lib, shown>>

\* Message::Saved(Ok(())), delivered by the write w once it has stored its
\* content.
SavedOk(w) ==
    /\ w \in writes
    /\ w.done
    /\ writes' = writes \ {w}
    /\ kanso' = IF kanso.tag = "Editing"
                THEN [kanso EXCEPT !.is_dirty = FALSE]
                ELSE kanso
    /\ last' = Event("SavedOk", log[w.id].at, "")
    /\ UNCHANGED <<loadTask, timers, file, ops, log, lib, shown>>

\* Saved(Err) with the error dropped instead of entering Errored.
SavedErrDropped(w, kind) ==
    /\ w \in writes
    /\ ~w.done
    /\ writes' = writes \ {w}
    /\ kanso' = kanso
    /\ last' = Event("SavedErr", 0, kind)
    /\ UNCHANGED <<loadTask, timers, file, ops, log, lib, shown>>

\* Message::Saved(Err(error)), delivered by the write w when tokio::fs::write
\* fails (on opening the file, which leaves the file as it was).
SavedErr(w, kind) ==
    /\ w \in writes
    /\ ~w.done
    /\ writes' = writes \ {w}
    /\ kanso' = Errored(IOFailed(kind))
    /\ last' = Event("SavedErr", 0, kind)
    /\ UNCHANGED <<loadTask, timers, file, ops, log, lib, shown>>

Next ==
    \/ \E w \in writes : save(w)
    \/ LoadedOk
    \/ LoadedErr
    \/ \E n \in Filenames : FilenameChanged(n)
    \/ FilenameChosen
    \/ \E c \in Chars : Write(c)
    \/ Amend
    \/ \E t \in timers : Save(t)
    \/ \E w \in writes : SavedOk(w)
    \/ \E w \in writes, kind \in IoKinds : SavedErr(w, kind)

Spec == Init /\ [][Next]_vars

\* ------------------------------------------------ struct Writing
\* The characters given to Writing::write: those above and the space.
WChars == Chars \cup {32}

\* char::is_alphanumeric, on the characters used here.
IsAlphanumeric(c) == c # 32

\* str::unicode_words().count(): on letters and spaces the words are the
\* maximal runs of letters.
RECURSIVE UnicodeWords(_)
UnicodeWords(s) ==
    IF s = <<>> THEN 0
    ELSE LET n == Len(s)
             endsWord == /\ IsAlphanumeric(s[n])
                         /\ (n = 1 \/ ~IsAlphanumeric(s[n - 1]))
         IN  UnicodeWords(SubSeq(s, 1, n - 1)) + (IF endsWord THEN 1 ELSE 0)

\* Writing::load(filepath): the results it can give.  A path without a file
\* is an empty Writing; try_exists and read_to_string may fail, the latter
\* also with InvalidData when the bytes of the file are not UTF-8.
Writing_load(filepath) ==
    LET decoded == IF file.exists THEN FromUtf8(file.content)
                   ELSE [ok |-> TRUE, text |-> <<>>]
        content == decoded.text
    IN  (IF decoded.ok
         THEN {[tag |-> "Writing",
                filepath |-> filepath,
                content |-> content,
                version |-> 0,
                last_save |-> 0,
                original_word_count |-> UnicodeWords(content)]}
         ELSE {[tag |-> "Err", error |-> IOFailed("InvalidData")]})
        \cup {[tag |-> "Err", error |-> IOFailed("PermissionDenied")]}

\* Writing::is_dirty
Writing_is_dirty(w) == w.version # w.last_save

\* Writing::word_count
Writing_word_count(w) == UnicodeWords(w.content)

\* Writing::word_count_difference
Writing_word_count_difference(w) ==
    Writing_word_count(w) - w.original_word_count

\* Writing::write(character): the Writing afterwards.
Writing_write(w, character) ==
    [w EXCEPT !.content = Push(w.content, character),
              !.version = w.version + 1]

\* amend with the version left alone when there is nothing to remove.
Writing_amend_counts_removals(w) ==
    IF w.content = <<>> THEN w
    ELSE [w EXCEPT !.content = Pop(w.content), !.version = w.version + 1]

\* Writing::amend(): the Writing afterwards.
Writing_amend(w) ==
    [w EXCEPT !.content = Pop(w.content),
              !.version = w.version + 1]

\* save taking the saved content as the new baseline of the word count.
Writing_save_rebases(w) ==
    [w EXCEPT !.last_save = w.version,
              !.original_word_count = UnicodeWords(w.content)]

\* Writing::save(): the Writing afterwards (the synchronous part).
Writing_save(w) == [w EXCEPT !.last_save = w.version]

\* Writing::save(): the future it returns, holding clones of the path and
\* of the content.
Writing_save_future(w) == [filepath |-> w.filepath, content |-> w.content]

\* A caller loads a Writing from the file: the first one, or, once the
\* futures of its saves have completed, a new one in place of the one it had.
DoLoad ==
    /\ writing.tag \in {"none", "Writing"}
    /\ futures = {}
    /\ writing' \in Writing_load(ArgPath)
    /\ calls' = 0
    /\ spent' = spent + calls
    /\ atLoad' = IF writing'.tag = "Writing" THEN writing'.content ELSE <<>>
    /\ UNCHANGED <<ctl, file, futures, stored>>

DoWrite(character) ==
    /\ writing.tag = "Writing"
    /\ spent + calls < MaxCalls
    /\ writing' = Writing_write(writing, character)
    /\ calls' = calls + 1
    /\ UNCHANGED <<ctl, file, futures, spent, atLoad, stored>>

DoAmend ==
    /\ writing.tag = "Writing"
    /\ spent + calls < MaxCalls
    /\ writing' = Writing_amend(writing)
    /\ calls' = calls + 1
    /\ UNCHANGED <<ctl, file, futures, spent, atLoad, stored>>

DoSave ==
    /\ writing.tag = "Writing"
    /\ writing' = Writing_save(writing)
    /\ futures' = futures \cup {Writing_save_future(writing)}
    /\ UNCHANGED <<ctl, file, calls, spent, atLoad, stored>>

\* The future of a save completes: tokio::fs::write stores its content, or
\* fails and leaves the file as it was.
SaveFuture(f) ==
    /\ f \in futures
    /\ futures' = futures \ {f}
    /\ \/ file' = FileOf(f.content) /\ stored' = Stored(f.content)
       \/ UNCHANGED <<file, stored>>
    /\ UNCHANGED <<ctl, writing, calls, spent, atLoad>>

\* The application is not started; the file is as in Init.
InitW ==
    /\ kanso = Creating("")
    /\ loadTask = NoTask
    /\ file \in {NoFile, BinaryFile}
                \cup {FileOf(s) : s \in StringsUpTo(MaxFileLen)}
    /\ timers = {}
    /\ writes = {}
    /\ ops = 0
    /\ log = <<>>
    /\ last = Event("new", 0, "")
    /\ shown = NotShown
    /\ writing = NoWriting
    /\ futures = {}
    /\ calls = 0
    /\ spent = 0
    /\ atLoad = <<>>
    /\ stored = NothingStored

NextW ==
    \/ DoLoad
    \/ \E c \in WChars : DoWrite(c)
    \/ DoAmend
    \/ DoSave
    \/ \E f \in futures : SaveFuture(f)

SpecW == InitW /\ [][NextW]_vars

\* ------------------------------------------------------ Kanso::view
\* usize::saturating_sub
SaturatingSub(a, b) == IF a > b THEN a - b ELSE 0

\* str::is_char_boundary(index): the byte index is where a character of s
\* starts, or the end of s (the start of a character is at least its
\* position in characters).
IsCharBoundary(s, index) ==
    \E k \in 0..Len(s) : k <= index /\ StrLen(SubSeq(s, 1, k)) = index

\* &s[index..] for a byte index on a character boundary.
SliceFrom(s, index) ==
    LET k == CHOOSE k \in 0..Len(s) :
                 k <= index /\ StrLen(SubSeq(s, 1, k)) = index
    IN  SubSeq(s, k + 1, Len(s))

\* The text Kanso::view puts before the cursor "_" in Editing: the bytes of
\* the content from content.len().saturating_sub(1_000) on.  Slicing a str at
\* a byte index inside a character panics.
DisplayedText(content) ==
    LET start == SaturatingSub(StrLen(content), TailLen)
    IN  IF IsCharBoundary(content, start)
        THEN Shown(SliceFrom(content, start))
        ELSE Panicked

\* Kanso::view, called by the runtime to draw the state.
view ==
    /\ ~shown.panic
    /\ shown' = IF kanso.tag = "Editing" THEN DisplayedText(kanso.content)
                ELSE NotShown
    /\ last' = Event("view", 0, "")
    /\ UNCHANGED <<kanso, loadTask, timers, writes, file, ops, log, lib>>

\* A long text: the character first followed by n times 'a'.
LongText(first, n) == [i \in 1..(n + 1) |-> IF i = 1 THEN first ELSE 97]

\* The application has loaded a long file and is Editing its text.
InitV ==
    /\ \E first \in Chars, n \in {LongLen, LongLen + 1} :
          /\ kanso = Editing(ArgPath, LongText(first, n), FALSE)
          /\ file = FileOf(LongText(first, n))
    /\ loadTask = NoTask
    /\ timers = {}
    /\ writes = {}
    /\ ops = 0
    /\ log = <<>>
    /\ last = Event("LoadedOk", 0, "")
    /\ shown = NotShown
    /\ writing = NoWriting
    /\ futures = {}
    /\ calls = 0
    /\ spent = 0
    /\ atLoad = <<>>
    /\ stored = NothingStored

\* Keys are typed and the state is drawn, until a panic ends the program.
NextV ==
    \/ \E c \in Chars : Write(c)
    \/ Amend
    \/ view

SpecV == InitV /\ [][NextV]_vars

\* ================================================================ claims
\* Editing with no timer and no write left.
Quiescent == kanso.tag = "Editing" /\ timers = {} /\ writes = {}

\* C1: no edit is lost.  Once edits have been handled and every timer has
\* fired and every write has completed without failure, some save has been
\* initiated whose snapshot is the final content of the buffer.
C1_NoEditLost ==
    (Quiescent /\ ops > 0) =>
        \E n \in DOMAIN log : log[n].content = kanso.content

\* C2: a completed save does not clear dirtiness for newer edits.  Right
\* after Saved(Ok) of a save that was initiated before the latest edit, the
\* session is dirty.
C2_CompletionKeepsNewerEditsDirty ==
    (last.ev = "SavedOk" /\ last.at < ops /\ kanso.tag = "Editing") =>
        kanso.is_dirty

\* C3: stale-timer safety.  A save is initiated by the timer of a Write or
\* Amend only if no further Write or Amend was handled before it fired.
C3_StaleTimerInitiatesNoSave ==
    \A n \in DOMAIN log : log[n].by >= 1 => log[n].by = log[n].at

\* The saves initiated by the timers of the edits i..j.
SavesBy(i, j) == {n \in DOMAIN log : log[n].by \in i..j}

\* The edits i..ops were all handled before any of their timers fired: each
\* timer is still pending or initiated a save after the last edit.
Burst(i) ==
    \A k \in i..ops :
        \/ \E t \in timers : t.op = k
        \/ \E n \in DOMAIN log : log[n].by = k /\ log[n].at = ops

\* C4: debounce coalescing.  When the edits i..ops (at least two) were all
\* handled before the first of their timers fired and all these timers have
\* fired, exactly one save was initiated by them, with the content as of the
\* last edit.
C4_BurstInitiatesOneSave ==
    kanso.tag = "Editing" =>
        \A i \in 1..(ops - 1) :
            (Burst(i) /\ ~\E t \in timers : t.op \in i..ops) =>
                /\ Cardinality(SavesBy(i, ops)) = 1
                /\ \A n \in SavesBy(i, ops) : log[n].content = kanso.content

\* C5: at most one save per version.  Between two save initiations a Write
\* or an Amend is handled.
C5_OneSavePerVersion ==
    \A n \in DOMAIN log : n > 1 => log[n - 1].at < log[n].at

\* C6: in Editing the dirty indicator is false only if no Write or Amend was
\* handled since the load (or creation) or since the latest save initiation.
C6_CleanOnlyWithoutLaterEdit ==
    (kanso.tag = "Editing" /\ ~kanso.is_dirty) =>
        IF log = <<>> THEN ops = 0 ELSE log[Len(log)].at = ops

\* C7: the version of a Writing is the number of write and amend calls made
\* on it since it was loaded (an amend on an empty content counts; a save
\* does not).
C7_VersionCountsCalls ==
    writing.tag = "Writing" => writing.version = calls

\* C7 witness: a Writing loaded from a missing file is empty again after
\* three calls, one of them an amend on the empty content, with a save made
\* after the second call.
C7_Witness ==
    /\ writing.tag = "Writing"
    /\ ~file.exists
    /\ writing.content = <<>>
    /\ writing.version = 3
    /\ writing.last_save = 2

\* C8: correctness under reordering.  In Editing with no timer and no write
\* left, the file holds the content of the buffer and the session is clean.
C8_QuiescentFileIsContent ==
    Quiescent => (file = FileOf(kanso.content) /\ ~kanso.is_dirty)

\* C9: error terminality for edits.  A Write or Amend handled in Errored
\* changes neither the phase, the error, the timers, the writes nor anything
\* else.
C9_ErroredIgnoresEdits ==
    [][(kanso.tag = "Errored" /\ last'.ev \in {"Write", "Amend"}) =>
          UNCHANGED <<kanso, loadTask, timers, writes, file, ops, log>>]_vars

\* C9 witness: an Amend has been handled in Errored while a timer and a write
\* were still pending.
C9_Witness ==
    /\ kanso.tag = "Errored"
    /\ last.ev = "Amend"
    /\ timers # {}
    /\ writes # {}

\* C10: an I/O failure is fatal.  Loaded(Err) is handled in Loading and
\* Saved(Err) leaves Editing; right after either the phase is Errored with
\* the error the message carried, and in Errored no save is initiated.
C10_IoFailureIsFatal ==
    /\ [](last.ev \in {"LoadedErr", "SavedErr"} =>
            kanso = Errored(IOFailed(last.err)))
    /\ [][/\ (last'.ev = "LoadedErr" /\ last.ev # "LoadedErr")
               => kanso.tag = "Loading"
          /\ (last'.ev = "SavedErr" /\ kanso.tag = "Editing")
               => kanso'.tag = "Errored"
          /\ kanso.tag = "Errored" => log' = log]_vars

\* C10 witness: a save failed, and a timer then fired in Errored.
C10_Witness ==
    /\ kanso.tag = "Errored"
    /\ last.ev = "Save"
    /\ log # <<>>
    /\ writes = {}

\* C11: not-found tolerance.  A load of a path without a file does not fail:
\* the load task never delivers Loaded(Err) with the kind NotFound, so the
\* application started with such a path is not Errored after its load.
C11_MissingFileIsNotAnError ==
    last.ev = "LoadedErr" => kanso # Errored(IOFailed("NotFound"))

\* C12: round trip.  Once a save has completed successfully, and as long as
\* no later write reaches the file, a load of the path does not find invalid
\* data and yields a Writing whose content is the content that was saved,
\* with version 0 and not dirty.
C12_RoundTrip ==
    stored.some =>
        /\ \E w \in Writing_load(ArgPath) : w.tag = "Writing"
        /\ \A w \in Writing_load(ArgPath) :
              w.tag = "Writing" =>
                  /\ w.content = stored.content
                  /\ w.version = 0
                  /\ ~Writing_is_dirty(w)

\* C12 witness: a Writing was edited and saved, and the Writing loaded
\* afterwards has the saved content, which holds a two-byte character.
C12_Witness ==
    /\ writing.tag = "Writing"
    /\ spent > 0
    /\ calls = 0
    /\ futures = {}
    /\ stored.some
    /\ writing.content = stored.content
    /\ \E i \in DOMAIN writing.content : writing.content[i] = 233

\* C13: word-count delta.  After any sequence of write, amend and save calls
\* on a Writing, word_count_difference is the word count of the current
\* content minus the word count of the content it had when loaded; the calls
\* leave the baseline alone, and the difference can be negative.
C13_WordCountDelta ==
    writing.tag = "Writing" =>
        /\ writing.original_word_count = UnicodeWords(atLoad)
        /\ Writing_word_count_difference(writing) =
               UnicodeWords(writing.content) - UnicodeWords(atLoad)

\* C13 witness: the only word of the loaded file was removed and the empty
\* content saved, so the difference is -1.
C13_Witness ==
    /\ writing.tag = "Writing"
    /\ writing.last_save > 0
    /\ UnicodeWords(atLoad) = 1
    /\ Writing_word_count_difference(writing) = -1

\* C14: creation.  FilenameChosen handled in Creating, whatever the filename,
\* enters Editing at that path with an empty content and is_dirty set, and
\* schedules exactly one timer while starting no write; when that timer
\* fires in Editing before any Write or Amend was handled, a save of the empty
\* content to that path is initiated.
C14_CreationSavesEmptyContent ==
    [][/\ (kanso.tag = "Creating" /\ last'.ev = "FilenameChosen") =>
             /\ kanso' = Editing(kanso.filename, <<>>, TRUE)
             /\ \E t \in timers' \ timers : timers' = timers \cup {t}
             /\ UNCHANGED <<writes, log>>
       /\ (/\ kanso.tag = "Editing"
           /\ ops = 0
           /\ \E t \in timers \ timers' : t.op = 0) =>
             /\ log' = Append(log, [filepath |-> kanso.filepath,
                                    content |-> <<>>, at |-> 0, by |-> 0])
             /\ Cardinality(writes') = Cardinality(writes) + 1]_vars

\* C14 witness: the timer of FilenameChosen has just fired in the session
\* created at "n", before any edit, and started the save of the empty content.
C14_Witness ==
    /\ kanso = Editing("n", <<>>, TRUE)
    /\ ops = 0
    /\ last.ev = "Save"
    /\ Len(log) = 1
    /\ log[1].by = 0
    /\ log[1].content = <<>>
    /\ writes # {}

\* C15: Errored is terminal.  No step taken in Errored (an edit, a filename
\* message, a timer firing, the completion of a load or of a write, failed or
\* not) changes the phase or the error that was captured.
C15_ErroredIsTerminal ==
    [][kanso.tag = "Errored" => kanso' = kanso]_vars

\* C16: initiating a save is one synchronous step.  The step that initiates a
\* save captures the path and the content of that moment and leaves the
\* session not dirty, before the write completes.
C16_InitiationMarksClean ==
    [][Len(log') > Len(log) =>
          /\ log'[Len(log')].filepath = kanso.filepath
          /\ log'[Len(log')].content = kanso.content
          /\ kanso'.tag = "Editing"
          /\ ~kanso'.is_dirty]_vars

\* C17: distinct mutations carry distinct timer tags.  The tag of the timer
\* of a Write or Amend is strictly greater than the tag of every timer that
\* was scheduled before it in the session, here: of those still pending.
C17_TimerTagsIncrease ==
    \A t1, t2 \in timers : t1.op < t2.op => t1.version < t2.version

\* C18: the phase only moves forward.  The phase changes only from Loading to
\* Editing or Errored, from Creating to Editing and from Editing to Errored;
\* so Editing is entered at most once and never from Errored, and Loading
\* and Creating are never entered again.
C18_PhaseMovesForward ==
    [][kanso'.tag # kanso.tag =>
          <<kanso.tag, kanso'.tag>> \in
              {<<"Loading", "Editing">>, <<"Loading", "Errored">>,
               <<"Creating", "Editing">>, <<"Editing", "Errored">>}]_vars

\* C18 witness: a created session failed on a write while another write had
\* stored its content, and Saved(Ok) of that write was handled in Errored.
C18_Witness ==
    /\ kanso.tag = "Errored"
    /\ last.ev = "SavedOk"
    /\ Len(log) >= 2
    /\ log[1].by = 0

\* C19: illegal events are ignored.  A Write or Amend handled in Loading or
\* Creating, and a FilenameChanged or FilenameChosen handled outside
\* Creating, change nothing: not the phase or the buffer, and no timer and no
\* write is started.
C19_IllegalEventsIgnored ==
    [][(\/ /\ kanso.tag \in {"Loading", "Creating"}
           /\ last'.ev \in {"Write", "Amend"}
        \/ /\ kanso.tag # "Creating"
           /\ last'.ev \in {"FilenameChanged", "FilenameChosen"}) =>
          UNCHANGED <<kanso, loadTask, timers, writes, file, ops, log>>]_vars

\* C19 witness: FilenameChosen has been handled in Editing while the buffer
\* held text, a timer was pending and a write was in flight.
C19_Witness ==
    /\ kanso.tag = "Editing"
    /\ last.ev = "FilenameChosen"
    /\ kanso.content # <<>>
    /\ timers # {}
    /\ writes # {}

\* The last n characters of s, or all of s when it has fewer.
LastChars(s, n) ==
    LET m == IF n < Len(s) THEN n ELSE Len(s)
    IN  SubSeq(s, Len(s) - m + 1, Len(s))

\* C20: display tail.  For every buffer reached by typing, drawing the state
\* in Editing does not panic and shows the last min(1000, length) characters
\* of the buffer.
C20_DisplayedTextIsLastChars ==
    last.ev = "view" =>
        /\ ~shown.panic
        /\ shown.text = LastChars(kanso.content, TailLen)

====
